---- MODULE Spec2Model ----
(***************************************************************************)
(* Lakeside compaction subsystem: the compaction coordinator (a durable    *)
(* object used as a lock), the transaction log kept on the object store,    *)
(* and the POST / GET / DELETE handlers of the compactor worker.            *)
(*                                                                         *)
(* Every await of the handlers is a point where other requests interleave, *)
(* so each handler is cut into one action per store or coordinator call.    *)
(* Parallel calls on disjoint keys (Promise.all of gets, puts or deletes)   *)
(* are one action: no other actor rewrites a key once written, so the       *)
(* outcome of the group only depends on the store at one instant.           *)
(***************************************************************************)
EXTENDS Integers, Sequences, FiniteSets, TLC

\* ---------------------------------------------------------------- bounds
MaxProcs == 2      \* concurrent compactor requests (of one worker isolate)
MaxPosts == 2      \* POST requests started over a behaviour
MaxKeys  == 2      \* staging keys the gateway may create over a behaviour
MaxTicks == 1      \* times the clock advances over a behaviour
MaxLoads == 1      \* times the coordinator instance is constructed again
MaxReserved == 1   \* log entries of a reserved operation
MaxLen   == 3      \* longest input sequence of a function studied alone

Procs == 1..MaxProcs

\* every POST appends at most one entry, so these log keys suffice
VersionKeys == 0..MaxPosts

\* ------------------------------------------------------------ the bucket
\* An object key "d1/d2/.../<id>.<ext>": its directory segments, then the
\* file name.  Keys are kept structured so that the partition pattern can be
\* applied to them segment by segment.
Key(dirs, id, ext) == [dirs |-> dirs, id |-> id, ext |-> ext]

\* data/<partition>/<uuid>.json (PUT) and data/<partition>/<uuid>.ndjson
\* (batch): the n-th key the gateway creates, alternating between two
\* partitions.  A uuid is never issued twice.
StagingKey(n) ==
    IF n % 2 = 1 THEN Key(<<"data", "p=A">>, n, "json")
    ELSE Key(<<"data", "p=B">>, n, "ndjson")

StagingKeys == {StagingKey(n) : n \in 1..MaxKeys}

\* an object directly under data/, written by something else than the gateway
StrayKeys == {Key(<<"data">>, 0, "json")}

DataKeys == StagingKeys \cup StrayKeys

\* R2 lists keys in lexicographic order: "data/<id>..." sorts before
\* "data/p=..." (digits before letters), then by partition, then by id.
KeyRank(k) ==
    IF Len(k.dirs) = 1 THEN 0
    ELSE (IF k.dirs[2] = "p=A" THEN 1 ELSE 2) * (MaxKeys + 1) + k.id

KeyLess(a, b) == KeyRank(a) < KeyRank(b)

RECURSIVE SortKeys(_)
SortKeys(S) ==
    IF S = {} THEN <<>>
    ELSE LET m == CHOOSE x \in S : \A y \in S \ {x} : KeyLess(x, y)
         IN  <<m>> \o SortKeys(S \ {m})

SeqToSet(s) == {s[i] : i \in 1..Len(s)}

\* Optional values (undefined in the source) are sets of at most one element.
Undefined == {}
Some(x) == {x}

VARIABLES
    objState,   \* data/ namespace: key -> "fresh" (never written), "rec"
                \* (parsable records), "bad" (text that JSON.parse
                \* rejects, which for a .json key includes the empty
                \* text), "empty" (an .ndjson body of no character),
                \* "gone" (deleted)
    parquet,    \* parquet/ namespace: set of published artifacts
    log,        \* _lakeside_log/ namespace: key number -> set of at most one entry
    state,      \* CompactionCoordinator.state (in memory)
    stored,     \* CompactionCoordinator ctx.storage 'state'
    now,        \* wall clock
    pc,         \* position of each compactor request
    fileKeys,   \* POST: snapshot of the data/ listing
    results,    \* POST: successResults of processPartition
    version,    \* appendTransaction: version computed by getNextVersion, and
                \* the value it returned once the put has resolved
    wrote,      \* POST: the conditional put of this request stored its entry
    nposts,     \* POST requests started so far
    resp,       \* the response returned ("none": not yet)
    report,     \* last orphan report of GET /reconcile
    schemaDoc,  \* the object at schema/schema.json: "valid", "invalid"
                \* (not JSON, or not a ParquetSchema) or "absent"
    schemaCache,\* the compactor's schemaCache: the timestamp of the cached
                \* schema, if any (its etag is that of the valid document)
    busyBatch,  \* POST: batch size named in the 409 message (0: none)
    nloads,     \* constructions of the coordinator instance after the first
    arg,        \* input of the function under study (pure functions)
    ret,        \* its result, once it has been applied
    staged      \* objects the gateway request under study has put

vars == <<objState, parquet, log, state, stored, now, pc, fileKeys,
          results, version, wrote, resp, nposts, report, schemaDoc,
          schemaCache, busyBatch, nloads, arg, ret, staged>>

storeVars == <<objState, parquet, log>>
coordVars == <<state, stored>>
procVars  == <<pc, fileKeys, results, version, wrote, resp, nposts>>
schemaVars == <<schemaDoc, schemaCache>>
pureVars == <<arg, ret, staged>>

\* what an object under data/ may hold
Contents == {"rec", "bad", "empty"}

Present(k) == objState[k] \in Contents

\* bucket.list({ prefix: 'data/' })
ListData == SortKeys({k \in DataKeys : Present(k)})

\* ------------------------------------------------- partition grouper
\* The segments that end with the characters "data".
EndsWithData(seg) == seg \in {"data", "mydata"}

\* filePath.match(/data\/([^/]+)\//): the pattern is not anchored, so the
\* leftmost directory segment ending in "data" that is followed by a
\* non-empty directory segment matches; the capture is that next segment.
MatchPositions(k) ==
    {i \in 1..(Len(k.dirs) - 1) : EndsWithData(k.dirs[i]) /\ k.dirs[i + 1] # ""}

extractPartition(k) ==
    IF MatchPositions(k) = {} THEN Undefined
    ELSE LET i == CHOOSE j \in MatchPositions(k) : \A h \in MatchPositions(k) : j <= h
         IN  Some(k.dirs[i + 1])

\* Map<partition, keys>: the keys of each partition in their input order;
\* keys without a partition are skipped.
groupFilesByPartition(keys) ==
    LET parts == UNION {extractPartition(keys[i]) : i \in 1..Len(keys)}
    IN  [q \in parts |-> SelectSeq(keys, LAMBDA k : extractPartition(k) = Some(q))]

\* ---------------------------------------------------- transaction log
NoEntry == {}
LogKeys == {v \in VersionKeys : log[v] # NoEntry}
EntryAt(v) == CHOOSE e \in log[v] : TRUE
Entries == UNION {log[v] : v \in VersionKeys}

SetMax(S) == CHOOSE x \in S : \A y \in S : y <= x

\* (variant: the next version computed one too far)
getNextVersionSkipping == IF LogKeys = {} THEN 0 ELSE SetMax(LogKeys) + 2

\* list the log prefix, parse the digits of every key, highest + 1
getNextVersion == IF LogKeys = {} THEN 0 ELSE SetMax(LogKeys) + 1

\* (variant: a put without the onlyIf condition)
UnconditionalPut(v, entry) == [log EXCEPT ![v] = {entry}]

\* bucket.put(key, entry, { onlyIf: { etagDoesNotMatch: '*' } }): the entry is
\* stored only when no object exists at the key.
ConditionalPut(v, entry) ==
    IF log[v] = NoEntry THEN [log EXCEPT ![v] = {entry}] ELSE log

\* readTransactionLog: every stored entry, sorted by its version field
RECURSIVE SortEntries(_)
SortEntries(S) ==
    IF S = {} THEN <<>>
    ELSE LET m == CHOOSE x \in S : \A y \in S : x.version <= y.version
         IN  <<m>> \o SortEntries(S \ {m})

readTransactionLog == SortEntries(Entries)

\* GET /transactions: the body is the array readTransactionLog returns and
\* nothing else
TransactionsResponse == [entries |-> readTransactionLog]

\* getCurrentState: replay of the log, then the orphans
ReplayParquetFiles == UNION {e.add : e \in Entries}

\* (variant: every listed key counts as removed)
ReplayRemovedFilesListed == SeqToSet(ListData)

\* removedFiles: the paths of the remove actions of every entry
ReplayRemovedFiles == UNION {e.remove : e \in Entries}

\* (variant: every removed key counts, listed or not)
OrphanedJsonFilesUnlisted == ReplayRemovedFiles

\* the removed keys that the listing of data/ still returns
OrphanedJsonFiles == {k \in ReplayRemovedFiles : k \in SeqToSet(ListData)}

\* ------------------------------------------------------- coordinator
\* The clock counts minutes.  Requests that follow each other closely read
\* the same clock value (and render the same timestamp); otherwise more than
\* the stale window lies between them.
STALE_MIN == 10     \* 10 * 60 * 1000 ms
TickMinutes == STALE_MIN + 1
ClockValues == {1 + i * TickMinutes : i \in 0..MaxTicks}

InitialState == [isCompacting |-> FALSE, currentBatch |-> Undefined, startedAt |-> Undefined]

HeldState(batch) == [isCompacting |-> TRUE, currentBatch |-> Some(batch), startedAt |-> Some(now)]

ReleasedState == [isCompacting |-> FALSE, currentBatch |-> Undefined, startedAt |-> Undefined]

\* (variant: release() records the time of the release)
releaseStamped ==
    /\ state' = [ReleasedState EXCEPT !.startedAt = Some(now)]
    /\ stored' = Some(state')

\* release(): the state is replaced and then persisted
release == /\ state' = ReleasedState
           /\ stored' = Some(ReleasedState)

\* (variant: a held state never counts as stale)
StaleNever(s) == FALSE

\* the constructor's test on a stored state: held, with a start time more
\* than ten minutes ago
Stale(s) ==
    /\ s.isCompacting
    /\ s.startedAt # Undefined
    /\ now - (CHOOSE t \in s.startedAt : TRUE) > STALE_MIN

\* (variant: the stale reset clears isCompacting only)
LoadedStateKeepsBatch ==
    IF stored = Undefined THEN InitialState
    ELSE LET s == CHOOSE x \in stored : TRUE
         IN  IF Stale(s) THEN [s EXCEPT !.isCompacting = FALSE] ELSE s

\* state after the constructor has run on the stored value
LoadedState ==
    IF stored = Undefined THEN InitialState
    ELSE LET s == CHOOSE x \in stored : TRUE
         IN  IF Stale(s) THEN ReleasedState ELSE s

\* -------------------------------------------------------------- Init
LakeInit ==
    /\ objState = [k \in DataKeys |-> "fresh"]
    /\ parquet = {}
    /\ log = [v \in VersionKeys |-> NoEntry]
    /\ state = InitialState
    /\ stored = Undefined
    /\ now = 1
    /\ pc = [p \in Procs |-> "idle"]
    /\ fileKeys = [p \in Procs |-> <<>>]
    /\ results = [p \in Procs |-> {}]
    /\ version = [p \in Procs |-> 0]
    /\ wrote = [p \in Procs |-> FALSE]
    /\ resp = [p \in Procs |-> "none"]
    /\ nposts = 0
    /\ report = {}
    /\ schemaDoc = "valid"
    /\ schemaCache = Undefined
    /\ busyBatch = [p \in Procs |-> 0]
    /\ nloads = 0

Init ==
    /\ LakeInit
    /\ arg = <<>>
    /\ ret = Undefined
    /\ staged = {}

\* the lake stays as it is while a function is applied to its input
LakeUnchanged ==
    UNCHANGED <<storeVars, coordVars, now, procVars, report, schemaVars,
                busyBatch, nloads>>

Running(p) == pc[p] \notin {"idle", "done"}

\* positions after appendTransaction has returned a version
Returned == {"publish", "reclaim", "release"}

\* positions between a successful tryAcquire and the release
Critical == {"process", "append", "put", "publish", "reclaim", "release"}

\* ------------------------------------------------------------ writers
\* what the gateway stores: the record of a PUT, or the lines of a POST
\* /batch, of which there are none when the array is empty
GatewayContents(k) == IF k.ext = "ndjson" THEN {"rec", "empty"} ELSE {"rec"}

\* gateway PUT / POST /batch: a new object under data/<partition>/
GatewayPut(k) ==
    /\ k \in StagingKeys
    /\ objState[k] = "fresh"
    /\ \E c \in GatewayContents(k) : objState' = [objState EXCEPT ![k] = c]
    /\ UNCHANGED <<parquet, log, state, stored, now, procVars, report, schemaVars, busyBatch, nloads, pureVars>>

\* what another writer adds to what the gateway stores: text that does not
\* parse (an empty .ndjson body is one of the gateway's)
ForeignContents == {"rec", "bad"}

\* any other writer of the bucket: an object under data/ of any content
\* (the text of an object outside every partition is never read, so one
\* content stands for all)
ForeignPut(k, c) ==
    /\ k \in DataKeys
    /\ c \in ForeignContents
    /\ k \in StrayKeys => c = "rec"
    /\ objState[k] = "fresh"
    /\ objState' = [objState EXCEPT ![k] = c]
    /\ UNCHANGED <<parquet, log, state, stored, now, procVars, report, schemaVars, busyBatch, nloads, pureVars>>

Tick ==
    /\ now + TickMinutes \in ClockValues
    /\ now' = now + TickMinutes
    /\ UNCHANGED <<storeVars, coordVars, procVars, report, schemaVars, busyBatch, nloads, pureVars>>


\* ------------------------------------------------------------- schema
\* SCHEMA_CACHE_TTL, in minutes
SCHEMA_CACHE_TTL == 1

\* schema-manager PUT: the request is validated, then stored
SchemaPut ==
    /\ schemaDoc # "valid"
    /\ schemaDoc' = "valid"
    /\ UNCHANGED <<storeVars, coordVars, now, procVars, report, schemaCache,
                   busyBatch, nloads, pureVars>>

\* any other writer of the bucket replaces or deletes schema/schema.json
ForeignSchema(c) ==
    /\ c \in {"invalid", "absent"}
    /\ schemaDoc # c
    /\ schemaDoc' = c
    /\ UNCHANGED <<storeVars, coordVars, now, procVars, report, schemaCache,
                   busyBatch, nloads, pureVars>>

\* getSchema: the results it can return and the schemaCache it leaves.
\* Within the TTL the cached schema is returned without a read.  Otherwise
\* the document is read, conditionally on its etag differing from the cached
\* one (an etag is a digest of the content, so only the valid document
\* matches a cached etag).  A null answer with a cache present is taken as
\* "unchanged".  For an unchanged document the binding answers either null or
\* an object without a body; the latter has no text() and the call throws
\* outside the handler's try block.
getSchema ==
    IF schemaCache # Undefined /\ \E ts \in schemaCache : now - ts < SCHEMA_CACHE_TTL
    THEN {[result |-> "ok", cache |-> schemaCache]}
    ELSE CASE schemaDoc = "absent" ->
                IF schemaCache # Undefined
                THEN {[result |-> "ok", cache |-> Some(now)]}
                ELSE {[result |-> "NoSchema", cache |-> schemaCache]}
           [] schemaDoc = "invalid" ->
                {[result |-> "Invalid", cache |-> schemaCache]}
           [] OTHER ->
                IF schemaCache # Undefined
                THEN {[result |-> "ok", cache |-> Some(now)],
                      [result |-> "throw", cache |-> schemaCache]}
                ELSE {[result |-> "ok", cache |-> Some(now)]}

\* the response of the handler to a getSchema result that is not a schema
SchemaResponse(result) ==
    IF result = "throw" THEN "Crashed" ELSE "SchemaUnavailable"

\* status line of each response of the POST handler
Status(r) ==
    CASE r = "NoFiles" -> 200
      [] r = "SchemaUnavailable" -> 400
      [] r = "Crashed" -> 500
      [] r = "Ok" -> 200
      [] r = "Busy" -> 409
      [] r = "NoPartitions" -> 400
      [] r = "Failed" -> 500
      [] OTHER -> 0

\* --------------------------------------------------- compactor: POST
\* (variant: the listing is handed to tryAcquire even when it is empty)
NothingToCompactNever(keys) == FALSE

\* fileKeys.length === 0
NothingToCompact(keys) == keys = <<>>

\* getSchema, then list the data/ prefix once; nothing to do when it is empty
List(p) ==
    /\ pc[p] \in {"idle", "done"}
    /\ nposts < MaxPosts
    /\ nposts' = nposts + 1
    /\ results' = [results EXCEPT ![p] = {}]
    /\ busyBatch' = [busyBatch EXCEPT ![p] = 0]
    /\ \E s \in getSchema :
          /\ schemaCache' = s.cache
          /\ IF s.result # "ok"
             THEN /\ pc' = [pc EXCEPT ![p] = "done"]
                  /\ resp' = [resp EXCEPT ![p] = SchemaResponse(s.result)]
                  /\ fileKeys' = [fileKeys EXCEPT ![p] = <<>>]
             ELSE /\ fileKeys' = [fileKeys EXCEPT ![p] = ListData]
                  /\ IF NothingToCompact(ListData)
                     THEN /\ pc' = [pc EXCEPT ![p] = "done"]
                          /\ resp' = [resp EXCEPT ![p] = "NoFiles"]
                     ELSE /\ pc' = [pc EXCEPT ![p] = "acquire"]
                          /\ resp' = [resp EXCEPT ![p] = "none"]
    /\ UNCHANGED <<storeVars, coordVars, now, version, wrote, report, schemaDoc,
                   nloads, pureVars>>

\* (variant: tryAcquire without the isCompacting test)
tryAcquireAlwaysGrants == TRUE

\* tryAcquire: granted exactly when no compaction is running
tryAcquireGrants == ~state.isCompacting

\* (variant: the 409 message names the size of the caller's batch)
BusyMessageOfCaller(p) == Len(fileKeys[p])

\* the batch size in the message of a refused /acquire:
\* this.state.currentBatch?.length || 0
BusyMessage(p) ==
    IF state.currentBatch = Undefined THEN 0
    ELSE Len(CHOOSE b \in state.currentBatch : TRUE)

\* (variant: the 409 path goes through the handler's release call)
AcquireReleasingOnBusy(p) ==
    /\ pc[p] = "acquire"
    /\ IF tryAcquireGrants
       THEN /\ state' = HeldState(fileKeys[p])
            /\ stored' = Some(HeldState(fileKeys[p]))
            /\ pc' = [pc EXCEPT ![p] = "process"]
            /\ resp' = resp
            /\ fileKeys' = fileKeys
            /\ busyBatch' = busyBatch
       ELSE /\ release
            /\ pc' = [pc EXCEPT ![p] = "done"]
            /\ resp' = [resp EXCEPT ![p] = "Busy"]
            /\ busyBatch' = [busyBatch EXCEPT ![p] = BusyMessage(p)]
            /\ fileKeys' = [fileKeys EXCEPT ![p] = <<>>]
    /\ UNCHANGED <<storeVars, now, results, version, wrote, nposts, report,
                   schemaVars, nloads, pureVars>>

\* POST /acquire on the coordinator, then the 409 of the handler
Acquire(p) ==
    /\ pc[p] = "acquire"
    /\ IF tryAcquireGrants
       THEN /\ state' = HeldState(fileKeys[p])
            /\ stored' = Some(HeldState(fileKeys[p]))
            /\ pc' = [pc EXCEPT ![p] = "process"]
            /\ resp' = resp
            /\ fileKeys' = fileKeys
            /\ busyBatch' = busyBatch
       ELSE /\ UNCHANGED coordVars
            /\ pc' = [pc EXCEPT ![p] = "done"]
            /\ resp' = [resp EXCEPT ![p] = "Busy"]
            /\ busyBatch' = [busyBatch EXCEPT ![p] = BusyMessage(p)]
            /\ fileKeys' = [fileKeys EXCEPT ![p] = <<>>]
    /\ UNCHANGED <<storeVars, now, results, version, wrote, nposts, report,
                   schemaVars, nloads, pureVars>>

\* parseFileContent: the records of a text, undefined when JSON.parse
\* throws.  An .ndjson text is parsed line by line after the blank lines
\* have been dropped, so a text of no character parses to no record; any
\* other text is parsed as one JSON value, and the empty text is none.
parseFileContent(content, filename) ==
    IF filename.ext = "ndjson"
    THEN CASE content = "rec" -> Some("records")
           [] content = "empty" -> Some("none")
           [] OTHER -> Undefined
    ELSE IF content = "rec" THEN Some("records") ELSE Undefined

\* processPartition fails when an object of the partition is absent (get
\* returns null) or its text does not parse
PartitionReadable(keys) ==
    \A i \in 1..Len(keys) : parseFileContent(objState[keys[i]], keys[i]) # Undefined

\* the successResults of a snapshot: one artifact per partition, named after
\* the partition and the clock, with one remove per source key
PartitionResults(keys) ==
    LET partitionMap == groupFilesByPartition(keys)
    IN  {[path |-> [part |-> q, ts |-> now], src |-> SeqToSet(partitionMap[q])]
            : q \in DOMAIN partitionMap}

\* the object a put of an artifact leaves on the store: the encoded records
\* of its source keys
Artifact(r) == [path |-> r.path, src |-> r.src]

\* put overwrites whatever is stored at the same key
PutArtifacts(rs) ==
    {a \in parquet : \A r \in rs : a.path # r.path} \cup {Artifact(r) : r \in rs}

\* exit of the critical section towards a response: release, then return
Exit(p, r) ==
    /\ release
    /\ pc' = [pc EXCEPT ![p] = "done"]
    /\ resp' = [resp EXCEPT ![p] = r]
    /\ results' = [results EXCEPT ![p] = {}]
    /\ fileKeys' = [fileKeys EXCEPT ![p] = <<>>]
    /\ version' = [version EXCEPT ![p] = 0]
    /\ wrote' = [wrote EXCEPT ![p] = FALSE]

\* grouping found no partition: release and 400
NoPartitions(p) ==
    /\ pc[p] = "process"
    /\ DOMAIN groupFilesByPartition(fileKeys[p]) = {}
    /\ Exit(p, "NoPartitions")
    /\ UNCHANGED <<storeVars, now, nposts, report, schemaVars, busyBatch, nloads, pureVars>>

\* (variant: the partition-error return without the release call)
ProcessFailHoldingLock(p) ==
    /\ pc[p] = "process"
    /\ \E q \in DOMAIN groupFilesByPartition(fileKeys[p]) :
          ~PartitionReadable(groupFilesByPartition(fileKeys[p])[q])
    /\ pc' = [pc EXCEPT ![p] = "done"]
    /\ resp' = [resp EXCEPT ![p] = "Failed"]
    /\ results' = [results EXCEPT ![p] = {}]
    /\ fileKeys' = [fileKeys EXCEPT ![p] = <<>>]
    /\ UNCHANGED <<storeVars, coordVars, now, version, wrote, nposts, report, schemaVars, busyBatch, nloads, pureVars>>

\* an object of some partition cannot be read or parsed: release, 500
ProcessFail(p) ==
    /\ pc[p] = "process"
    /\ \E q \in DOMAIN groupFilesByPartition(fileKeys[p]) :
          ~PartitionReadable(groupFilesByPartition(fileKeys[p])[q])
    /\ Exit(p, "Failed")
    /\ UNCHANGED <<storeVars, now, nposts, report, schemaVars, busyBatch, nloads, pureVars>>

\* (variant: a partition's artifact is written as soon as it is encoded, so
\* one is on the store when the encoder rejects another partition)
EncodeFailAfterWrite(p) ==
    /\ pc[p] = "process"
    /\ DOMAIN groupFilesByPartition(fileKeys[p]) # {}
    /\ \A q \in DOMAIN groupFilesByPartition(fileKeys[p]) :
          PartitionReadable(groupFilesByPartition(fileKeys[p])[q])
    /\ \E r \in PartitionResults(fileKeys[p]) : parquet' = PutArtifacts({r})
    /\ Exit(p, "Failed")
    /\ UNCHANGED <<objState, log, now, nposts, report, schemaVars, busyBatch, nloads, pureVars>>

\* generateParquet throws on the records of some partition: release, 500
EncodeFail(p) ==
    /\ pc[p] = "process"
    /\ DOMAIN groupFilesByPartition(fileKeys[p]) # {}
    /\ \A q \in DOMAIN groupFilesByPartition(fileKeys[p]) :
          PartitionReadable(groupFilesByPartition(fileKeys[p])[q])
    /\ Exit(p, "Failed")
    /\ UNCHANGED <<storeVars, now, nposts, report, schemaVars, busyBatch, nloads, pureVars>>

\* every partition was read, parsed and encoded
Process(p) ==
    /\ pc[p] = "process"
    /\ DOMAIN groupFilesByPartition(fileKeys[p]) # {}
    /\ \A q \in DOMAIN groupFilesByPartition(fileKeys[p]) :
          PartitionReadable(groupFilesByPartition(fileKeys[p])[q])
    /\ results' = [results EXCEPT ![p] = PartitionResults(fileKeys[p])]
    /\ pc' = [pc EXCEPT ![p] = "append"]
    /\ UNCHANGED <<storeVars, coordVars, now, fileKeys, version, wrote, resp, nposts, report, schemaVars, busyBatch, nloads, pureVars>>

\* (variant: the entry carries the add actions only)
NewEntryWithoutRemoves(p, v) ==
    [version |-> v,
     operation |-> "compact",
     add |-> {r.path : r \in results[p]},
     remove |-> {}]

\* the entry appendTransaction builds around the computed version
NewEntry(p, v) ==
    [version |-> v,
     operation |-> "compact",
     add |-> {r.path : r \in results[p]},
     remove |-> UNION {r.src : r \in results[p]}]

\* appendTransaction, first await: getNextVersion lists the log
AppendList(p) ==
    /\ pc[p] = "append"
    /\ getNextVersion \in VersionKeys
    /\ version' = [version EXCEPT ![p] = getNextVersion]
    /\ pc' = [pc EXCEPT ![p] = "put"]
    /\ UNCHANGED <<storeVars, coordVars, now, fileKeys, results, wrote, resp, nposts, report, schemaVars, busyBatch, nloads, pureVars>>

\* the listing of getNextVersion throws: the handler's catch releases, 500
AppendFail(p) ==
    /\ pc[p] = "append"
    /\ Exit(p, "Failed")
    /\ UNCHANGED <<storeVars, now, nposts, report, schemaVars, busyBatch, nloads, pureVars>>

\* appendTransaction, second await: the conditional put.  When the key is
\* free the entry is stored and the version returned.  When the key is taken
\* nothing is stored, and the put either resolves to null (the R2 binding's
\* answer to a failed onlyIf), after which the code returns the version
\* without looking at the result, or rejects, after which the catch block
\* calls appendTransaction again.
Put(p) ==
    /\ pc[p] = "put"
    /\ log' = ConditionalPut(version[p], NewEntry(p, version[p]))
    /\ IF log' # log
       THEN /\ wrote' = [wrote EXCEPT ![p] = TRUE]
            /\ pc' = [pc EXCEPT ![p] = "publish"]
       ELSE \E signal \in {"null", "throw"} :
              /\ wrote' = wrote
              /\ pc' = [pc EXCEPT ![p] = IF signal = "null" THEN "publish" ELSE "append"]
    /\ UNCHANGED <<objState, parquet, coordVars, now, fileKeys, results,
                   version, resp, nposts, report, schemaVars, busyBatch, nloads, pureVars>>

\* appendTransaction, the conditional put rejecting for any other reason (the
\* store being unavailable, the request being refused): nothing is stored and
\* the catch block, which does not look at the error, calls appendTransaction
\* again
PutError(p) ==
    /\ pc[p] = "put"
    /\ pc' = [pc EXCEPT ![p] = "append"]
    /\ UNCHANGED <<storeVars, coordVars, now, fileKeys, results, version,
                   wrote, resp, nposts, report, schemaVars, busyBatch, nloads, pureVars>>

\* publish: the puts of all artifacts, in parallel; the puts in ok take effect
Publish(p) ==
    /\ pc[p] = "publish"
    /\ \E ok \in SUBSET results[p] :
          /\ parquet' = PutArtifacts(ok)
          /\ IF ok = results[p]
             THEN /\ pc' = [pc EXCEPT ![p] = "reclaim"]
                  /\ UNCHANGED <<coordVars, resp, results, fileKeys, version, wrote>>
             ELSE Exit(p, "Failed")
    /\ UNCHANGED <<objState, log, now, nposts, report, schemaVars, busyBatch, nloads, pureVars>>

\* (variant: the reclaim step lists the prefix again)
ReclaimTargetsRelisted(p) == SeqToSet(ListData)

\* the keys the reclaim step deletes: every key of the snapshot
ReclaimTargets(p) == SeqToSet(fileKeys[p])

Delete(ks) == [k \in DataKeys |-> IF k \in ks /\ Present(k) THEN "gone" ELSE objState[k]]

\* reclaim: the deletes of all snapshot keys, in parallel; those in ok take effect
Reclaim(p) ==
    /\ pc[p] = "reclaim"
    /\ \E ok \in SUBSET ReclaimTargets(p) :
          /\ objState' = Delete(ok)
          /\ IF ok = ReclaimTargets(p)
             THEN /\ pc' = [pc EXCEPT ![p] = "release"]
                  /\ UNCHANGED <<coordVars, resp, results, fileKeys, version, wrote>>
             ELSE Exit(p, "Failed")
    /\ UNCHANGED <<parquet, log, now, nposts, report, schemaVars, busyBatch, nloads, pureVars>>

\* release after a successful compaction, then the 200
Release(p) ==
    /\ pc[p] = "release"
    /\ Exit(p, "Ok")
    /\ UNCHANGED <<storeVars, now, nposts, report, schemaVars, busyBatch, nloads, pureVars>>

\* --------------------------------------------- compactor: GET, DELETE
\* (variant: reconcile deletes the orphans it reports)
ReconcileAndClean ==
    /\ \E s \in getSchema : s.result = "ok" /\ schemaCache' = s.cache
    /\ report' = OrphanedJsonFiles
    /\ objState' = Delete(OrphanedJsonFiles)
    /\ UNCHANGED <<parquet, log, coordVars, now, procVars, schemaDoc, busyBatch, nloads, pureVars>>

\* GET /reconcile
Reconcile ==
    /\ \E s \in getSchema : s.result = "ok" /\ schemaCache' = s.cache
    /\ report' = OrphanedJsonFiles
    /\ UNCHANGED <<storeVars, coordVars, now, procVars, schemaDoc, busyBatch, nloads, pureVars>>

\* (variant: cleanup deletes what the last reconcile reported)
CleanupTargetsReported == report

\* the keys DELETE /cleanup deletes: the orphans of a fresh getCurrentState
CleanupTargets == OrphanedJsonFiles

\* DELETE /cleanup, every delete taking effect: 200 'Cleanup complete'
CleanupAll ==
    /\ OrphanedJsonFiles # {}
    /\ objState' = Delete(CleanupTargets)
    /\ \E s \in getSchema : s.result = "ok" /\ schemaCache' = s.cache
    /\ UNCHANGED <<parquet, log, coordVars, now, procVars, report, schemaDoc,
                   busyBatch, nloads, pureVars>>

\* DELETE /cleanup, some delete rejecting: those in ok take effect, 500
CleanupPartial ==
    /\ OrphanedJsonFiles # {}
    /\ \E ok \in SUBSET CleanupTargets :
          /\ ok # CleanupTargets
          /\ objState' = Delete(ok)
    /\ \E s \in getSchema : s.result = "ok" /\ schemaCache' = s.cache
    /\ UNCHANGED <<parquet, log, coordVars, now, procVars, report, schemaDoc,
                   busyBatch, nloads, pureVars>>

\* DELETE /cleanup
Cleanup == CleanupAll \/ CleanupPartial

\* ------------------------------------------- coordinator: other events
\* POST /force-release
ForceRelease ==
    /\ release
    /\ UNCHANGED <<storeVars, now, procVars, report, schemaVars, busyBatch, nloads, pureVars>>

\* (variant: the constructor starts from the initial state whatever is stored)
LoadForgetting ==
    /\ nloads < MaxLoads
    /\ nloads' = nloads + 1
    /\ state' = InitialState
    /\ UNCHANGED <<storeVars, stored, now, procVars, report, schemaVars, busyBatch,
                   pureVars>>

\* the instance is evicted and constructed again from its storage
Load ==
    /\ nloads < MaxLoads
    /\ nloads' = nloads + 1
    /\ state' = LoadedState
    /\ UNCHANGED <<storeVars, stored, now, procVars, report, schemaVars, busyBatch,
                   pureVars>>

\* the host terminates a request between two of its awaits: nothing of it
\* runs any more, neither its catch block nor its release
Kill(p) ==
    /\ Running(p)
    /\ pc' = [pc EXCEPT ![p] = "idle"]
    /\ fileKeys' = [fileKeys EXCEPT ![p] = <<>>]
    /\ results' = [results EXCEPT ![p] = {}]
    /\ version' = [version EXCEPT ![p] = 0]
    /\ wrote' = [wrote EXCEPT ![p] = FALSE]
    /\ UNCHANGED <<storeVars, coordVars, now, resp, nposts, report, schemaVars,
                   busyBatch, nloads, pureVars>>

\* ------------------------------------------------------ specification
\* the steps of a POST whose snapshot holds a key of some partition
Partitioned(p) ==
    \/ List(p) \/ Acquire(p) \/ ProcessFail(p) \/ EncodeFail(p)
    \/ Process(p) \/ AppendList(p) \/ AppendFail(p) \/ Put(p) \/ PutError(p)
    \/ Publish(p)
    \/ Reclaim(p) \/ Release(p)

Compactor(p) == Partitioned(p) \/ NoPartitions(p)

\* The lake with an administrator who may force-release the lock: compactor
\* requests, the writers of the partitions, reconcile and cleanup (every
\* object under data/ lies in a partition).
Next ==
    \/ \E p \in Procs : Partitioned(p)
    \/ \E k \in StagingKeys : GatewayPut(k)
    \/ \E k \in StagingKeys, c \in ForeignContents : ForeignPut(k, c)
    \/ Reconcile
    \/ Cleanup
    \/ ForceRelease

Spec == Init /\ [][Next]_vars

\* The lake without coordinator bypass (no force release, no instance
\* load), with every writer of the bucket and the clock.
NextSerial ==
    \/ \E p \in Procs : Compactor(p)
    \/ \E k \in StagingKeys : GatewayPut(k)
    \/ \E k \in DataKeys, c \in ForeignContents : ForeignPut(k, c)
    \/ Tick
    \/ Cleanup

SpecSerial == Init /\ [][NextSerial]_vars

\* The coordinator over its whole life: compactor requests and gateway
\* writes (every object under data/ lies in a partition, so no snapshot is
\* without partitions), the clock, force release, requests terminated by the
\* host, and the instance being constructed again from its storage.
NextCoord ==
    \/ \E p \in Procs : Partitioned(p)
    \/ \E k \in StagingKeys : GatewayPut(k)
    \/ \E p \in Procs : Kill(p)
    \/ Tick
    \/ Load
    \/ ForceRelease

SpecCoord == Init /\ [][NextCoord]_vars

\* The lake with the writers of the schema document and the clock (every
\* object under data/ lies in a partition).
NextSchema ==
    \/ \E p \in Procs : Partitioned(p)
    \/ \E k \in StagingKeys : GatewayPut(k)
    \/ SchemaPut
    \/ \E c \in {"invalid", "absent"} : ForeignSchema(c)
    \/ Tick

SpecSchema == Init /\ [][NextSchema]_vars

\* something else than the compactor deletes an object of the log
ForeignLogDelete(v) ==
    /\ v \in LogKeys
    /\ log' = [log EXCEPT ![v] = NoEntry]
    /\ UNCHANGED <<objState, parquet, coordVars, now, procVars, report,
                   schemaVars, busyBatch, nloads, pureVars>>

\* The lake whose log objects may be deleted by another party (every object
\* under data/ lies in a partition).
NextLog ==
    \/ \E p \in Procs : Partitioned(p)
    \/ \E k \in StagingKeys : GatewayPut(k)
    \/ \E v \in VersionKeys : ForeignLogDelete(v)

SpecLog == Init /\ [][NextLog]_vars

\* the entries of the operations that no code of the worker writes yet: any
\* add and remove actions
ReservedEntries(v) ==
    [version : {v},
     operation : {"schema_change", "cleanup"},
     add : {{}, {[part |-> "p=A", ts |-> 0]}},
     remove : {{}, {StagingKey(1)}}]

\* another writer of the log appends an entry of a reserved operation
ForeignLogPut(e) ==
    /\ Cardinality({x \in Entries : x.operation # "compact"}) < MaxReserved
    /\ getNextVersion \in VersionKeys
    /\ e \in ReservedEntries(getNextVersion)
    /\ log' = ConditionalPut(e.version, e)
    /\ UNCHANGED <<objState, parquet, coordVars, now, procVars, report,
                   schemaVars, busyBatch, nloads, pureVars>>

\* The lake whose log also receives entries of the reserved operations.
NextReserved ==
    \/ \E p \in Procs : Partitioned(p)
    \/ \E k \in StagingKeys : GatewayPut(k)
    \/ \E v \in VersionKeys : \E e \in ReservedEntries(v) : ForeignLogPut(e)

SpecReserved == Init /\ [][NextReserved]_vars

\* The same lake with the scheduling the runtime gives a request: a request
\* that can take a step eventually takes one.  Nothing is assumed of the
\* store's answers.
SpecLive == SpecSerial /\ \A p \in Procs : WF_vars(Compactor(p))

\* ------------------------------------------- the grouper, studied alone
\* keys of every shape the pattern has to tell apart: in a partition, directly
\* under data/, with an empty segment after data/, under a directory that
\* only ends in "data", and with a second data/ further down
GrouperKeys ==
    {Key(<<"data", "p=A">>, 1, "json"),
     Key(<<"data", "p=A">>, 2, "json"),
     Key(<<"data", "p=B">>, 3, "ndjson"),
     Key(<<"data">>, 4, "json"),
     Key(<<"data", "", "data", "p=A">>, 5, "json"),
     Key(<<"mydata", "p=B">>, 6, "json"),
     Key(<<"data", "p=A", "data", "p=B">>, 7, "json")}

\* the sequences of at most n distinct elements of S
DistinctSeqs(S, n) ==
    UNION {{q \in [1..m -> S] : \A i \in 1..m, j \in 1..m : q[i] = q[j] => i = j}
              : m \in 0..n}

InitGrouper ==
    /\ LakeInit
    /\ arg \in DistinctSeqs(GrouperKeys, MaxLen)
    /\ ret = Undefined
    /\ staged = {}

\* groupFilesByPartition(fileKeys)
Group ==
    /\ ret = Undefined
    /\ ret' = Some(groupFilesByPartition(arg))
    /\ UNCHANGED <<arg, staged>>
    /\ LakeUnchanged

SpecGrouper == InitGrouper /\ [][Group]_vars

\* ------------------------------------------ the validator, studied alone
\* A JSON value is kept by the class the validator tells apart: an integer,
\* another number, a string, or null.  A JSON object is the sequence of its
\* <<key, value>> pairs in insertion order; anything else is a scalar.
JSONValues == {"int", "float", "string", "null"}

Object(pairs) == [object |-> TRUE, pairs |-> pairs]
Scalar == [object |-> FALSE, pairs |-> <<>>]

\* json[name]: the value of the property, undefined when there is none
Lookup(json, name) ==
    {json.pairs[i][2] : i \in {j \in 1..Len(json.pairs) : json.pairs[j][1] = name}}

Success == [success |-> TRUE, errors |-> <<>>]
Failure(text, key) == [success |-> FALSE, errors |-> <<[text |-> text, key |-> key]>>]

\* validateJSONFieldAgainstSchema for fields without a logical type
validateJSONFieldAgainstSchema(key, JSONValue, field) ==
    CASE field.type = "INT64" ->
            IF JSONValue = "int" THEN Success
            ELSE Failure("Field is not an integer", key)
      [] field.type = "DOUBLE" ->
            IF JSONValue \in {"int", "float"} THEN Success
            ELSE Failure("Field is not a double", key)
      [] field.type = "BYTE_ARRAY" ->
            IF JSONValue = "string" THEN Success
            ELSE Failure("Field is not a string", key)
      [] OTHER -> Failure("Unknown type", field.type)

\* the second loop: the first key of the object that no field declares
UnknownFields(json, schema) ==
    LET unknown == {i \in 1..Len(json.pairs) :
                       \A j \in 1..Len(schema) : schema[j].name # json.pairs[i][1]}
    IN  IF unknown = {} THEN Success
        ELSE Failure("Unknown field",
                     json.pairs[CHOOSE i \in unknown : \A j \in unknown : i <= j][1])

\* (variant: a missing field is an error whatever its repetition type)
MissingIsErrorAlways(fieldValue, field) ==
    fieldValue = Undefined \/ fieldValue = Some("null")

\* fieldValue === undefined || fieldValue === null, for a REQUIRED field
MissingIsError(fieldValue, field) ==
    /\ fieldValue = Undefined \/ fieldValue = Some("null")
    /\ field.repetitionType = "REQUIRED"

\* the first loop from field i on: the first error ends the validation
RECURSIVE ValidateFields(_, _, _)
ValidateFields(json, schema, i) ==
    IF i > Len(schema) THEN UnknownFields(json, schema)
    ELSE LET field == schema[i]
             fieldValue == Lookup(json, field.name)
         IN  IF MissingIsError(fieldValue, field)
             THEN Failure("Missing required field", field.name)
             ELSE IF fieldValue = Undefined \/ fieldValue = Some("null")
             THEN ValidateFields(json, schema, i + 1)
             ELSE LET validated == validateJSONFieldAgainstSchema(
                                       field.name, CHOOSE v \in fieldValue : TRUE, field)
                  IN  IF ~validated.success THEN validated
                      ELSE ValidateFields(json, schema, i + 1)

validateJSONAgainstSchema(json, schema) ==
    IF ~json.object THEN Failure("JSON is not a valid object", "")
    ELSE ValidateFields(json, schema, 1)

\* the inputs: objects over the keys a, b and u with values of every class,
\* one scalar, and schemas of distinct fields a and b
PropertyNames == {"a", "b", "u"}
FieldNames == {"a", "b"}
FieldTypes == {"INT64", "BYTE_ARRAY"}
RepetitionTypes == {"REQUIRED", "OPTIONAL"}

JSONObjects ==
    {Object(q) : q \in {x \in DistinctSeqs(PropertyNames \X JSONValues, Cardinality(PropertyNames)) :
                           \A i \in 1..Len(x), j \in 1..Len(x) : x[i][1] = x[j][1] => i = j}}

Schemas ==
    {x \in DistinctSeqs([name : FieldNames, type : FieldTypes, repetitionType : RepetitionTypes],
                        Cardinality(FieldNames)) :
        \A i \in 1..Len(x), j \in 1..Len(x) : x[i].name = x[j].name => i = j}

InitValidator ==
    /\ LakeInit
    /\ arg \in (JSONObjects \cup {Scalar}) \X Schemas
    /\ ret = Undefined
    /\ staged = {}

Validate ==
    /\ ret = Undefined
    /\ ret' = Some(validateJSONAgainstSchema(arg[1], arg[2]))
    /\ UNCHANGED <<arg, staged>>
    /\ LakeUnchanged

SpecValidator == InitValidator /\ [][Validate]_vars

\* ------------------------------------------------------------ gateway POST /batch alone
\* the schema getSchema answers with, when there is one
BatchSchema ==
    <<[name |-> "a", type |-> "INT64", repetitionType |-> "REQUIRED"],
      [name |-> "b", type |-> "BYTE_ARRAY", repetitionType |-> "OPTIONAL"]>>

\* elements of the array: two records that validate, two that do not, and
\* an element that is not an object
BatchRecords ==
    {Object(<<<<"a", "int">>>>),
     Object(<<<<"a", "int">>, <<"b", "string">>>>),
     Object(<<<<"a", "string">>>>),
     Object(<<<<"b", "string">>>>),
     Scalar}

\* request bodies: text that is not JSON, JSON values that are not arrays,
\* and arrays
NotJSON == [json |-> FALSE, array |-> FALSE, records |-> <<>>]
NotArray(v) == [json |-> TRUE, array |-> FALSE, records |-> <<v>>]
Array(records) == [json |-> TRUE, array |-> TRUE, records |-> records]

Bodies ==
    {NotJSON, NotArray(Scalar), NotArray(Object(<<<<"a", "int">>>>))}
       \cup {Array(q) : q \in UNION {[1..n -> BatchRecords] : n \in 0..MaxLen}}

\* v4(): any uuid
UUIDs == {1, 2}

\* data/order_ts_hour=<hour of the clock>/<uuid>.ndjson
BatchKey(uuid) == Key(<<"data", "order_ts_hour=h">>, uuid, "ndjson")

\* JSON.stringify(r): the properties of the record in their order, on one line
JSONStringify(r) == [line |-> r.pairs]

\* records.map(r => JSON.stringify(r)).join('\n'), as its lines
NDJSON(records) == [i \in 1..Len(records) |-> JSONStringify(records[i])]

\* validationErrors: the indices of the records that fail, with their errors
RECURSIVE ValidationErrors(_, _, _)
ValidationErrors(records, schema, i) ==
    IF i > Len(records) THEN <<>>
    ELSE LET validated == validateJSONAgainstSchema(records[i], schema)
         IN  (IF validated.success THEN <<>>
              ELSE <<[index |-> i - 1, errors |-> validated.errors]>>)
                \o ValidationErrors(records, schema, i + 1)

Response(status, text) == [status |-> status, text |-> text]

\* (variant: the batch is written whatever the validation found)
RejectedNever(validationErrors) == FALSE

\* validationErrors.length > 0
Rejected(validationErrors) == Len(validationErrors) > 0

\* the handler: its response and the objects it has put.  The put of an
\* object either stores it or throws, and a throw is answered with 500.
POSTBatch(body, schema) ==
    IF schema = Undefined
    THEN {[response |-> Response(400, "NoSchema"), puts |-> {}]}
    ELSE IF ~body.json
    THEN {[response |-> Response(500, "Failed to process request"), puts |-> {}]}
    ELSE IF ~body.array
    THEN {[response |-> Response(400, "Expected array of records"), puts |-> {}]}
    ELSE LET validationErrors ==
                 ValidationErrors(body.records, CHOOSE x \in schema : TRUE, 1)
         IN  IF Rejected(validationErrors)
             THEN {[response |-> Response(400, "Validation failed"), puts |-> {}]}
             ELSE {[response |-> Response(200, "success"),
                    puts |-> {[key |-> BatchKey(u),
                               body |-> NDJSON(body.records),
                               recordCount |-> Len(body.records)]}] : u \in UUIDs}
                    \cup {[response |-> Response(500, "Failed to process request"),
                           puts |-> {}]}

InitBatch ==
    /\ LakeInit
    /\ arg \in [schema : {Undefined, Some(BatchSchema)}, body : Bodies]
    /\ ret = Undefined
    /\ staged = {}

Batch ==
    /\ ret = Undefined
    /\ \E out \in POSTBatch(arg.body, arg.schema) :
          /\ ret' = Some(out.response)
          /\ staged' = staged \cup out.puts
    /\ UNCHANGED arg
    /\ LakeUnchanged

SpecBatch == InitBatch /\ [][Batch]_vars

\* ============================================================== claims
InCritical == {p \in Procs : pc[p] \in Critical}

\* C1: without force release or stale-lock expiry, at most one POST is
\* between a successful tryAcquire and its release, and a POST whose
\* tryAcquire finds the coordinator held returns 409 Busy without going on.
C1_MutualExclusion ==
    [][/\ Cardinality(InCritical') <= 1
       /\ \A p \in Procs :
            (pc[p] = "acquire" /\ state.isCompacting /\ pc'[p] # pc[p])
               => (pc'[p] = "done" /\ resp'[p] = "Busy" /\ log' = log)]_vars

C1_Witness ==
    \E p, q \in Procs :
        /\ pc[p] \in {"append", "put", "publish"}
        /\ pc[q] = "done" /\ resp[q] = "Busy"

\* C6: every exit path of a POST that acquired the lock releases it: when no
\* request is inside the critical section the coordinator is idle, in memory
\* and in its storage.
C6_ReleasedOnEveryExit ==
    (InCritical = {}) =>
        /\ ~state.isCompacting
        /\ \A s \in stored : ~s.isCompacting

C6_Witness ==
    \E p, q \in Procs :
        /\ pc[p] = "done" /\ resp[p] = "Ok"
        /\ pc[q] = "done" /\ resp[q] = "Failed"
        /\ stored = Some(ReleasedState)

\* C7: a compaction that fails before the log append (read, parse or
\* encoder failure) changes nothing on the store in any of its steps,
\* releases the lock and answers with a failure.
C7_PreCommitFailureLeavesStore ==
    [][\A p \in Procs :
          /\ (pc[p] \in {"idle", "done", "acquire", "process"} /\ pc'[p] # pc[p])
                => UNCHANGED storeVars
          /\ (pc[p] = "process" /\ pc'[p] = "done")
                => /\ resp'[p] \in {"Failed", "NoPartitions"}
                   /\ Status(resp'[p]) >= 400
                   /\ UNCHANGED storeVars
                   /\ ~state'.isCompacting]_vars

C7_Witness ==
    \E p \in Procs :
        /\ pc[p] = "done" /\ resp[p] = "Failed"
        /\ \E k \in StagingKeys : objState[k] = "bad"
        /\ \A k \in DataKeys : objState[k] # "gone"
        /\ Entries = {} /\ parquet = {}
        /\ ~state.isCompacting

\* Keys written under data/ after request p listed the prefix.  A key is
\* written once and never again, so these are the keys that exist or
\* existed and are not part of the snapshot.
Late(p) ==
    {k \in DataKeys : Running(p) /\ objState[k] # "fresh" /\ k \notin SeqToSet(fileKeys[p])}

\* C8: a key written after a compaction listed the prefix is not in that
\* compaction's remove actions and no step of that compaction deletes it.
C8_LateKeysUntouched ==
    [][\A p \in Procs : \A k \in Late(p) :
          /\ \A r \in results[p] : k \notin r.src
          /\ (pc'[p] # pc[p] /\ Present(k)) => Present(k)']_vars

C8_Witness ==
    \E p \in Procs :
        /\ pc[p] = "release"
        /\ wrote[p]
        /\ \E k \in StagingKeys : k \in Late(p) /\ Present(k)

\* C2: the stored versions are dense from 0 and no two entries carry the
\* same version.
C2_DenseVersions ==
    /\ \A v \in LogKeys : \A u \in 0..(v - 1) : u \in LogKeys
    /\ \A e \in Entries : \A u \in 0..(e.version - 1) : \E f \in Entries : f.version = u
    /\ \A v, w \in LogKeys : v # w => EntryAt(v).version # EntryAt(w).version

C2_Witness ==
    \E p, q \in Procs :
        /\ p # q
        /\ pc[p] \in Returned /\ wrote[p]
        /\ pc[q] \in Returned /\ wrote[q]
        /\ LogKeys = {0, 1}

\* C10: a stored log entry is never changed or deleted by any step.
C10_EntriesImmutable ==
    [][\A v \in LogKeys : log'[v] = log[v]]_vars

C10_Witness ==
    \E p \in Procs :
        /\ pc[p] \in Returned
        /\ ~wrote[p]
        /\ log[version[p]] # NoEntry
        /\ EntryAt(version[p]) # NewEntry(p, version[p])

\* C3 (as claimed): of two writers that are both past appendTransaction,
\* each stored its own entry and they hold distinct versions.
C3_ConcurrentAppendsDistinct ==
    \A p, q \in Procs :
        (p # q /\ pc[p] \in Returned /\ pc[q] \in Returned)
           => /\ version[p] # version[q]
              /\ wrote[p] /\ wrote[q]
              /\ Len(readTransactionLog) >= 2

\* C4 (as claimed): once the log append of a compaction has succeeded, the
\* response is a success whatever fails afterwards.
C4_PostCommitSuccess ==
    [][\A p \in Procs :
          (wrote[p] /\ pc[p] \in Returned /\ pc'[p] = "done") => Status(resp'[p]) = 200]_vars

\* C5 (as claimed): every object under parquet/ is referenced by an add
\* action of a committed entry, and a request whose append stored nothing
\* publishes nothing.
C5_NoArtifactWithoutEntry ==
    \A a \in parquet : \E e \in Entries : a.path \in e.add

\* C9 (as claimed): a listed key that has no partition is in no remove action
\* and no step of the compaction deletes it.
C9_UngroupedKeysUntouched ==
    [][\A p \in Procs : \A k \in SeqToSet(fileKeys[p]) :
          extractPartition(k) = Undefined =>
             /\ \A r \in results[p] : k \notin r.src
             /\ (pc'[p] # pc[p] /\ Present(k)) => Present(k)']_vars

\* C11: appendTransaction terminates on every execution: when the
\* conditional write keeps failing it stops after a bounded number of
\* attempts and surfaces LogContention instead of retrying for ever, so a
\* request that has reached the conditional put eventually leaves the append.
C11_AppendTerminates ==
    \A p \in Procs : (pc[p] = "put") ~> (pc[p] \notin {"append", "put"})

\* C12: whenever the schema document on the store is absent or invalid when
\* a POST arrives, whatever the process served before, the POST fails with
\* SchemaUnavailable without calling tryAcquire and the coordinator state is
\* unchanged.
C12_SchemaUnavailableBeforeLock ==
    [][\A p \in Procs :
          (List(p) /\ schemaDoc # "valid")
             => /\ pc'[p] = "done"
                /\ resp'[p] = "SchemaUnavailable"
                /\ UNCHANGED coordVars]_vars

\* C13: tryAcquire on a held coordinator answers busy and leaves the state
\* unchanged in memory and in storage; the 409 names the size of the batch
\* of the request holding the lock, not that of the caller.
C13_BusyLeavesStateAndNamesHolder ==
    [][\A p \in Procs :
          (pc[p] = "acquire" /\ state.isCompacting /\ pc'[p] # pc[p])
             => /\ resp'[p] = "Busy"
                /\ state' = state
                /\ stored' = stored
                /\ \A q \in InCritical : busyBatch'[p] = Len(fileKeys[q])]_vars

C13_Witness ==
    \E p \in Procs, q \in Procs :
        /\ pc[p] = "done" /\ resp[p] = "Busy"
        /\ q \in InCritical
        /\ busyBatch[p] = Len(fileKeys[q])
        /\ Cardinality({k \in DataKeys : Present(k)}) > busyBatch[p]

\* the coordinator states that carry a batch and a start time exactly when
\* they are busy
WellFormed(s) ==
    IF s.isCompacting
    THEN s.currentBatch # Undefined /\ s.startedAt # Undefined
    ELSE s.currentBatch = Undefined /\ s.startedAt = Undefined

\* C14: in every reachable coordinator state, after construction or load,
\* tryAcquire, release and forceRelease in any order, busy=false implies
\* batch and startedAt are unset and busy=true implies both are set.
C14_BatchAndStartIffBusy ==
    /\ WellFormed(state)
    /\ \A s \in stored : WellFormed(s)

\* the instance has been loaded over a stale held state: memory says idle
\* while storage still says busy
C14_Witness ==
    /\ nloads > 0
    /\ ~state.isCompacting
    /\ \E s \in stored : s.isCompacting

\* an instance load (the constructor runs on the stored value)
LoadStep == nloads' # nloads

\* a busy state whose startedAt lies more than STALE_MS in the past
Expired(s) == s.isCompacting /\ \E t \in s.startedAt : now - t > STALE_MIN

\* storage holds a lock older than the stale threshold
StaleStored == \E s \in stored : Expired(s)

\* C15: when the instance loads while storage holds a busy state older than
\* ten minutes, the coordinator is IDLE after the load and the next
\* tryAcquire succeeds.
C15_StaleLockRecoveredOnLoad ==
    [][(LoadStep /\ StaleStored)
          => (~state'.isCompacting /\ tryAcquireGrants')]_vars

C15_Witness ==
    /\ nloads > 0
    /\ StaleStored
    /\ tryAcquireGrants
    /\ \E p \in Procs : pc[p] = "acquire"

\* C16: stale-lock recovery is persisted: after a load that reset a stale
\* lock, storage holds busy=false and equals the state in memory, so a
\* second load does not find the stale lock again.
C16_RecoveryPersisted ==
    [][(LoadStep /\ StaleStored)
          => (stored' = Some(state') /\ ~StaleStored')]_vars

\* C17: when the request holding the lock is terminated before its release,
\* the lock does not stay held for ever: a POST whose tryAcquire comes more
\* than ten minutes after startedAt is not answered Busy, it obtains the lock
\* and proceeds.
C17_AbandonedLockExpires ==
    [][\A p \in Procs :
          (/\ pc[p] = "acquire" /\ pc'[p] \in {"process", "done"}
           /\ InCritical = {}
           /\ Expired(state))
             => (resp'[p] # "Busy" /\ pc'[p] = "process")]_vars

\* a step that calls release(): the exit of a request from its critical
\* section, or POST /force-release
ReleaseStep ==
    \/ \E p \in Procs : pc[p] \in Critical /\ pc'[p] = "done"
    \/ UNCHANGED <<pc, nloads, pureVars>> /\ coordVars' # coordVars

\* C18: release() is idempotent: on an IDLE coordinator it leaves the
\* coordinator IDLE with batch and startedAt unset, and a release() after a
\* release() changes nothing.
C18_ReleaseIdempotent ==
    [][ReleaseStep
          => /\ state' = ReleasedState
             /\ stored' = Some(ReleasedState)
             /\ (state = ReleasedState /\ stored = Some(ReleasedState))
                    => UNCHANGED coordVars]_vars

\* one request has released while another is still in its critical section:
\* the release of the second finds the coordinator IDLE
C18_Witness ==
    \E p \in Procs, q \in Procs :
        /\ pc[p] = "done" /\ resp[p] \in {"Ok", "Failed", "NoPartitions"}
        /\ q \in InCritical
        /\ state = ReleasedState /\ stored = Some(ReleasedState)

\* the partitions of the snapshot of request p, and its grouped source keys
SnapshotPartitions(p) == DOMAIN groupFilesByPartition(fileKeys[p])
GroupedKeys(p) == {k \in SeqToSet(fileKeys[p]) : extractPartition(k) # Undefined}

\* C19: a compaction that commits appends exactly one log entry, and that
\* entry holds every add action (one per partition of the snapshot) and
\* every remove action (one per grouped source key) of the compaction: every
\* step that changes the log is the conditional put of one request storing
\* one entry with all its actions, and a request that has stored its entry
\* stores no other.
C19_OneEntryWithAllActions ==
    [][log' # log =>
          \E p \in Procs, v \in VersionKeys :
             /\ pc[p] = "put" /\ ~wrote[p] /\ wrote'[p]
             /\ log[v] = NoEntry
             /\ \E e \in log'[v] :
                   /\ log' = [log EXCEPT ![v] = {e}]
                   /\ {a.part : a \in e.add} = SnapshotPartitions(p)
                   /\ Cardinality(e.add) = Cardinality(SnapshotPartitions(p))
                   /\ e.remove = GroupedKeys(p)
                   /\ e.add \subseteq ReplayParquetFiles'
                   /\ e.remove \subseteq ReplayRemovedFiles']_vars

\* a stored entry of a compaction over two partitions
C19_Witness ==
    \E e \in Entries :
        /\ Cardinality(e.add) = 2
        /\ Cardinality(e.remove) = 2

\* C20: after a POST that returns 200 with transactionVersion v, the log
\* entry with version v exists and is the entry of this compaction, every
\* artifact path of its add list exists on the store, every staging key of
\* the snapshot is absent from the store, and the coordinator is IDLE.
C20_SuccessPostconditions ==
    [][\A p \in Procs :
          (pc[p] = "release" /\ pc'[p] = "done" /\ resp'[p] = "Ok")
             => /\ wrote[p]
                /\ \E e \in log'[version[p]] :
                      /\ e.version = version[p]
                      /\ e.remove = GroupedKeys(p)
                      /\ {a.part : a \in e.add} = SnapshotPartitions(p)
                      /\ \A a \in e.add : \E x \in parquet' : x.path = a
                /\ \A k \in SeqToSet(fileKeys[p]) : ~Present(k)'
                /\ ~state'.isCompacting]_vars

\* the keys under parquet/ that hold an object
PublishedPaths == {a.path : a \in parquet}

\* C21: an artifact is never mutated: once a compaction has published an
\* object at a parquet/ key, no later compaction, not even one for the same
\* partition started within the same second, writes to that key again.
C21_ArtifactsWrittenOnce ==
    [][\A p \in Procs :
          (pc[p] = "publish" /\ pc'[p] = "reclaim")
             => \A r \in results[p] : r.path \notin PublishedPaths]_vars

\* every POST so far has returned, each request slot has served at most one,
\* and none of them failed: the history is a sequence of successful
\* compactions (and of POSTs that found nothing to do or were refused)
OnlySuccessfulCompactions ==
    /\ \A p \in Procs : ~Running(p) /\ resp[p] \in {"none", "Ok", "NoFiles", "Busy"}
    /\ nposts = Cardinality({p \in Procs : resp[p] # "none"})

\* C22: after any sequence of successful compactions, the parquetFiles set
\* of getCurrentState equals the set of keys of the objects those
\* compactions published under parquet/.
C22_ReplayEqualsPublished ==
    OnlySuccessfulCompactions => ReplayParquetFiles = PublishedPaths

\* the staging keys named in the remove list of a stored entry that still
\* hold an object under data/
RemovedAndPresent ==
    {k \in DataKeys : Present(k) /\ \E e \in Entries : k \in e.remove}

\* C23: reconcile reports as orphans exactly the staging keys that are in
\* the remove list of some committed entry and still exist under data/; a
\* grouped key whose delete fails after the commit is among them.
C23_ReconcileReportsOrphans ==
    [][/\ (UNCHANGED <<pc, objState, log, state>> /\ Reconcile)
             => report' = RemovedAndPresent
       /\ \A p \in Procs :
            (pc[p] = "reclaim" /\ pc'[p] = "done" /\ wrote[p])
               => \A k \in GroupedKeys(p) : Present(k)' => k \in RemovedAndPresent']_vars

\* a reconcile after a failed delete has reported one orphan
C23_Witness ==
    /\ Cardinality(report) = 1
    /\ report = RemovedAndPresent
    /\ \E p \in Procs : resp[p] = "Failed"

\* C24: with no other writer active, a cleanup followed by a reconcile
\* reports no orphan, from any reachable store state: after a cleanup whose
\* deletes all took effect, no key of a stored remove list is left under
\* data/.
C24_CleanupLeavesNoOrphan ==
    [][(UNCHANGED <<pc, parquet, log, state>> /\ CleanupAll)
          => RemovedAndPresent' = {}]_vars

\* the only POST so far failed after its commit and left its only key; the
\* key is gone now, so a cleanup has deleted it
C24_Witness ==
    /\ nposts = 1
    /\ \E p \in Procs : resp[p] = "Failed"
    /\ \E k \in DataKeys :
          /\ objState[k] = "gone"
          /\ \E e \in Entries : e.remove = {k}
          /\ \A j \in DataKeys \ {k} : objState[j] = "fresh"
    /\ RemovedAndPresent = {}

\* C25: reconcile is read-only and idempotent: it changes neither the
\* store, the log nor the coordinator state, and with no other writer active
\* a second call returns the report of the first: the report is the set of
\* orphans of the state the call leaves.
C25_ReconcileReadOnlyIdempotent ==
    [][(UNCHANGED <<pc, nposts>> /\ Reconcile)
          => /\ UNCHANGED <<storeVars, coordVars>>
             /\ RemovedAndPresent' = report']_vars

\* a reconcile has reported orphans while a compaction holds the lock
C25_Witness ==
    /\ report # {}
    /\ report = OrphanedJsonFiles
    /\ state.isCompacting

\* the versions below the highest stored one that have no entry
MissingVersions ==
    IF LogKeys = {} THEN {}
    ELSE {v \in 0..SetMax(LogKeys) : log[v] = NoEntry}

\* C26: readAll reports the missing versions of the log: when the stored
\* versions have a gap the result names every missing version, and the
\* entries that exist are returned in ascending version order.
C26_GapsReported ==
    MissingVersions # {}
       => /\ "missingVersions" \in DOMAIN TransactionsResponse
          /\ TransactionsResponse.missingVersions = MissingVersions
          /\ \A i \in 1..(Len(TransactionsResponse.entries) - 1) :
                TransactionsResponse.entries[i].version
                   < TransactionsResponse.entries[i + 1].version

\* the partition of a key under the anchored pattern ^data/([^/]+)/
AnchoredPartition(k) ==
    IF Len(k.dirs) >= 2 /\ k.dirs[1] = "data" /\ k.dirs[2] # ""
    THEN Some(k.dirs[2])
    ELSE Undefined

\* C27: for every input sequence of keys, groupFilesByPartition returns a
\* map in which a key appears if and only if it matches the anchored pattern
\* ^data/([^/]+)/ with a non-empty partition segment; each such key appears
\* exactly once, in the group of the segment right after data/, and the keys
\* of each group are in their input order.
C27_GroupsByAnchoredPattern ==
    \A m \in ret :
       /\ DOMAIN m = UNION {AnchoredPartition(arg[i]) : i \in 1..Len(arg)}
       /\ \A q \in DOMAIN m :
             m[q] = SelectSeq(arg, LAMBDA k : AnchoredPartition(k) = Some(q))

\* a value of the class the primitive type asks for
ValueFits(type, v) ==
    \/ type = "INT64" /\ v = "int"
    \/ type = "BYTE_ARRAY" /\ v = "string"

\* every property of the record is declared by the schema and holds a value
\* of the declared type
PresentFieldsValid(json, schema) ==
    /\ json.object
    /\ \A i \in 1..Len(json.pairs) :
          \E j \in 1..Len(schema) :
             /\ schema[j].name = json.pairs[i][1]
             /\ ValueFits(schema[j].type, json.pairs[i][2])

\* the fields of the given repetition type that the record lacks
Lacking(json, schema, rep) ==
    {schema[j].name : j \in {h \in 1..Len(schema) :
                                /\ schema[h].repetitionType = rep
                                /\ \A i \in 1..Len(json.pairs) :
                                      json.pairs[i][1] # schema[h].name}}

\* C30: validateJSONAgainstSchema rejects a record that lacks a field
\* declared REQUIRED with the single error 'Missing required field <name>',
\* and accepts a record that lacks only fields declared OPTIONAL, for every
\* schema and record whose other fields are valid.
C30_MissingFields ==
    \A r \in ret :
       PresentFieldsValid(arg[1], arg[2])
          => IF Lacking(arg[1], arg[2], "REQUIRED") # {}
             THEN /\ ~r.success
                  /\ Len(r.errors) = 1
                  /\ r.errors[1].text = "Missing required field"
                  /\ r.errors[1].key \in Lacking(arg[1], arg[2], "REQUIRED")
             ELSE r.success

\* a record with a valid field that lacks an OPTIONAL field was accepted
C30_Witness ==
    \E r \in ret :
       /\ r.success
       /\ PresentFieldsValid(arg[1], arg[2])
       /\ Len(arg[1].pairs) = 1
       /\ Lacking(arg[1], arg[2], "OPTIONAL") # {}

\* every element of the array is an object the schema accepts
AllValidate(body, schema) ==
    \A i \in 1..Len(body.records) :
       validateJSONAgainstSchema(body.records[i], schema).success

\* line i of the object is record i of the array
HoldsEveryRecord(o, records) ==
    /\ Len(o.body) = Len(records)
    /\ \A i \in 1..Len(records) : o.body[i].line = records[i].pairs

\* C29: a POST /batch that has answered wrote no staging object when its
\* body is not an array or one of the records fails validation; when every
\* record validates it wrote, unless the put failed (500, nothing written),
\* exactly one object data/<partition>/<uuid>.ndjson that holds every
\* record of the array.
C29_BatchAllOrNothing ==
    \A r \in ret :
       IF arg.body.array /\ arg.schema # Undefined
             /\ AllValidate(arg.body, BatchSchema)
       THEN \/ r.status = 500 /\ staged = {}
            \/ /\ r.status = 200
               /\ Cardinality(staged) = 1
               /\ \A o \in staged :
                     /\ o.key.dirs[1] = "data"
                     /\ Len(o.key.dirs) = 2
                     /\ o.key.ext = "ndjson"
                     /\ HoldsEveryRecord(o, arg.body.records)
       ELSE r.status # 200 /\ staged = {}

\* a batch of three with one invalid record in the middle has been refused
C29_Witness ==
    \E r \in ret :
       /\ arg.body.array
       /\ Len(arg.body.records) = 3
       /\ validateJSONAgainstSchema(arg.body.records[1], BatchSchema).success
       /\ ~validateJSONAgainstSchema(arg.body.records[2], BatchSchema).success
       /\ validateJSONAgainstSchema(arg.body.records[3], BatchSchema).success
       /\ r.status = 400
       /\ staged = {}

\* C28: a POST that lists no object under data/ answers 200 'No files to
\* compact' and changes nothing: the log, the staging objects and the
\* artifacts are as before, and tryAcquire is not called, so the state of
\* the coordinator in memory and in storage is as before.
C28_EmptySnapshotChangesNothing ==
    [][\A p \in Procs :
          (List(p) /\ ListData = <<>>)
             => /\ pc'[p] = "done"
                /\ resp'[p] = "NoFiles"
                /\ UNCHANGED <<objState, parquet, log>>
                /\ UNCHANGED <<state, stored>>]_vars

\* a POST has answered 'No files to compact' while another request holds
\* the lock: it did not ask for it
C28_Witness ==
    \E p \in Procs :
       /\ pc[p] = "done"
       /\ resp[p] = "NoFiles"
       /\ fileKeys[p] = <<>>
       /\ state.isCompacting
       /\ ListData = <<>>

\* C31 (as claimed): appendTransaction returns a version only when its own
\* conditional put stored the entry: a put that finds the key of its version
\* taken stores nothing, does not return that version, and goes back to
\* compute the next version; a request past appendTransaction holds a
\* version whose stored entry is its own.
C31_ReturnsOnlyOwnWrite ==
    [][\A p \in Procs :
          (pc[p] = "put" /\ pc'[p] # "put" /\ log[version[p]] # NoEntry)
             => /\ log' = log
                /\ pc'[p] = "append"]_vars

\* C32: the coordinator leaves HELD only through release(), forceRelease()
\* or an instance load that finds the lock older than the stale threshold:
\* every step that changes a held state is one of these and leaves the
\* coordinator IDLE, and a load that finds a younger lock keeps it with the
\* same batch and startedAt; in particular no tryAcquire changes a held
\* lock, however old it is.
C32_HeldLeftOnlyByReleaseOrStaleLoad ==
    [][(state.isCompacting /\ state' # state)
          => /\ ReleaseStep \/ (LoadStep /\ Expired(state))
             /\ state' = ReleasedState]_vars

\* a tryAcquire has been refused and the lock it found is older than the
\* stale threshold, on an instance that has been loaded before the lock was
\* stale
C32_Witness ==
    /\ Expired(state)
    /\ nloads > 0
    /\ \E p \in Procs : pc[p] = "done" /\ resp[p] = "Busy"

\* C33 (as claimed): when a staging object of the snapshot that belongs to a
\* partition is absent or has an empty body when the compaction reads it,
\* whether its key ends in .json (where the empty body is one of the texts
\* that do not parse) or in .ndjson, the compaction fails: it appends no log
\* entry, deletes no staging object and releases the lock.
C33_UnreadableObjectAborts ==
    [][\A p \in Procs :
          (/\ pc[p] = "process" /\ pc'[p] # "process"
           /\ \E k \in GroupedKeys(p) :
                 \/ objState[k] \in {"fresh", "gone", "empty"}
                 \/ k.ext = "json" /\ objState[k] = "bad")
             => /\ pc'[p] = "done"
                /\ resp'[p] = "Failed"
                /\ log' = log
                /\ objState' = objState
                /\ ~state'.isCompacting]_vars

\* the entries replay is to take into account
CompactEntries == {e \in Entries : e.operation = "compact"}

\* C34 (as claimed): entries of the operations schema_change and cleanup are
\* returned by readTransactionLog as they are stored, and replay ignores
\* them: the live artifacts, the removed staging keys and the orphans are
\* those of the compact entries alone.
C34_ReservedEntriesIgnored ==
    /\ SeqToSet(readTransactionLog) = Entries
    /\ ReplayParquetFiles = UNION {e.add : e \in CompactEntries}
    /\ ReplayRemovedFiles = UNION {e.remove : e \in CompactEntries}
    /\ OrphanedJsonFiles =
          {k \in UNION {e.remove : e \in CompactEntries} : k \in SeqToSet(ListData)}

\* the records of staging object k are in an artifact that exists on the
\* store and that a stored log entry adds
Compacted(k) ==
    \E a \in parquet : k \in a.src /\ \E e \in Entries : a.path \in e.add

\* C35 (as claimed): no data loss: every staging object that was written is
\* still present under data/, or its records are in an artifact that exists
\* on the store and is referenced by a committed log entry.  Read in the
\* states where no compaction is under way.
C35_NoDataLoss ==
    (\A p \in Procs : ~Running(p))
       => \A k \in StagingKeys : objState[k] = "gone" => Compacted(k)

\* C36 (as claimed): no double-write: every staging key is in the remove
\* list of at most one stored log entry, also after a reclaim that failed
\* and left staging objects on the store.
C36_RemovedAtMostOnce ==
    \A e1 \in Entries, e2 \in Entries :
       e1 # e2 => e1.remove \cap e2.remove = {}

\* C37 (as claimed): the release() of a compaction clears only a lock this
\* compaction acquired: when the coordinator holds the lock of another
\* compaction that is still running (the batch of the lock is that
\* compaction's snapshot and not the snapshot of the one that exits), the
\* exit leaves the coordinator held.
C37_ReleaseOnlyOwnLock ==
    [][\A p \in Procs :
          (/\ pc[p] \in Critical /\ pc'[p] = "done"
           /\ state.isCompacting
           /\ state.currentBatch # Some(fileKeys[p])
           /\ \E q \in Procs \ {p} :
                 pc[q] \in Critical /\ state.currentBatch = Some(fileKeys[q]))
             => state'.isCompacting]_vars

\* C38: a POST whose tryAcquire is refused is answered Busy without calling
\* release(): the step that refuses it leaves the coordinator held, in
\* memory and in storage, and the log, the artifacts and the staging objects
\* as they are; and while the request stays answered, every step that frees
\* the lock is the exit of another request from its critical section.
C38_BusyNeverReleases ==
    [][\A p \in Procs :
          /\ (pc[p] = "acquire" /\ ~tryAcquireGrants /\ pc'[p] # pc[p])
                => /\ pc'[p] = "done" /\ resp'[p] = "Busy"
                   /\ state'.isCompacting
                   /\ \E s \in stored' : s.isCompacting
                   /\ UNCHANGED <<objState, parquet, log>>
          /\ (/\ pc[p] = "done" /\ resp[p] = "Busy" /\ pc'[p] = "done"
              /\ state.isCompacting /\ ~state'.isCompacting)
                => \E q \in Procs \ {p} : pc[q] \in Critical /\ pc'[q] = "done"]_vars

\* a request has been answered Busy and the compaction that holds the lock
\* has gone on to its reclaim step
C38_Witness ==
    \E p \in Procs, q \in Procs :
       /\ pc[p] = "done" /\ resp[p] = "Busy"
       /\ pc[q] = "reclaim"
       /\ state.isCompacting
       /\ state.currentBatch = Some(fileKeys[q])

\* a step of DELETE /cleanup that deletes something: an object under data/
\* goes away and no compactor request moves (the reclaim step of a POST
\* moves its request)
CleanupStep ==
    /\ pc' = pc
    /\ \E k \in DataKeys : Present(k) /\ objState'[k] = "gone"

\* C39: DELETE /cleanup deletes only keys under data/ that a stored log
\* entry removes: whatever else is going on, a cleanup step takes away no
\* staging object that no entry has removed, leaves the artifacts and the
\* log as they are, and leaves the coordinator, in memory and in storage,
\* as it is.
C39_CleanupDeletesOnlyRemoved ==
    [][CleanupStep
          => /\ \A k \in DataKeys :
                   (Present(k) /\ ~Present(k)') => \E e \in Entries : k \in e.remove
             /\ \A k \in DataKeys : ~Present(k) => objState'[k] = objState[k]
             /\ UNCHANGED <<parquet, log>>
             /\ UNCHANGED <<state, stored>>]_vars

\* cleanup has deleted the staging object of a commit whose artifact was
\* never published, while a compaction is running and a staging object that
\* no entry removes is on the store
C39_Witness ==
    /\ parquet = {}
    /\ \E k \in StagingKeys :
          objState[k] = "gone" /\ \E e \in Entries : k \in e.remove
    /\ \E k \in StagingKeys :
          Present(k) /\ \A e \in Entries : k \notin e.remove
    /\ \E q \in Procs : pc[q] \in Critical

====
